---- MODULE Spec2Model ----
(***************************************************************************)
(* Model of PythonScripts/main.py: generate_commit_dates (the date         *)
(* sampler), make_commit (the commit applier) and main (the orchestrator). *)
(*                                                                         *)
(* A calendar date is a day number; a datetime is the number of seconds    *)
(* since midnight of day 0, so that Python's ordering of datetimes is the  *)
(* ordering of integers.  A formatted date string "%Y-%m-%dT%H:%M:%S" is   *)
(* the tuple <<day, hour, minute, second>> of its fields.                  *)
(***************************************************************************)
EXTENDS Integers, Sequences, FiniteSets, TLC

VARIABLES
    pc,                 \* position of main / generate_commit_dates
    start_date,         \* start_date (a day)
    end_date,           \* end_date (a datetime)
    current,            \* generate_commit_dates: current (a day)
    commit_dates,       \* generate_commit_dates: commit_dates, then main's schedule
    commits_this_week,  \* generate_commit_dates: commits_this_week
    drawn,              \* iterations done of "for _ in range(commits_this_week)"
    windows,            \* number of iterations of the while loop so far
    idx,                \* main: 1-based position of the for loop over commit_dates
    dummy_txt,          \* the lines of dummy.txt
    os_environ,         \* os.environ of the script's own process
    calls,              \* every subprocess.run issued so far, in order
    repo_log,           \* the commits git has recorded, in order
    pushed,             \* number of commits the remote holds
    failed              \* the step that raised, and the timestamp's position

vars == <<pc, start_date, end_date, current, commit_dates, commits_this_week,
          drawn, windows, idx, dummy_txt, os_environ, calls, repo_log, pushed,
          failed>>

genVars == <<current, commit_dates, commits_this_week, drawn, windows>>
runVars == <<idx, dummy_txt, os_environ, calls, repo_log, pushed, failed>>

----------------------------------------------------------------------------
(* Bounds of the model *)

MaxStart == 1       \* start_date ranges over 0..MaxStart
MaxSpan  == 1       \* Spec: end_date's day is at most start_date + MaxSpan
MaxWeeks == 2       \* SpecWeeks: end_date's day is start_date + 7*W, W <= MaxWeeks

(* Program constants *)

MinCommits  == 3    \* random.randint(3, 5)
MaxCommits  == 5
MaxOffset   == 6    \* random.randint(0, 6)
MinHour     == 9    \* random.randint(9, 20)
MaxHour     == 20
MaxMinute   == 59   \* random.randint(0, 59)
MaxSecond   == 59
DaysPerWeek == 7    \* datetime.timedelta(days=7)

SecondsPerDay == 24 * 60 * 60

----------------------------------------------------------------------------
(* datetime arithmetic *)

\* datetime.time(hour, minute, second) as seconds since midnight
TimeOfDay(h, m, s) == h * 3600 + m * 60 + s

\* datetime.datetime.combine(day, time)
Combine(day, tod) == day * SecondsPerDay + tod

\* end_date.date()
DateOf(dt) == dt \div SecondsPerDay

\* commit_date.strftime("%Y-%m-%dT%H:%M:%S")
Strftime(dt) ==
    << dt \div SecondsPerDay,
       (dt % SecondsPerDay) \div 3600,
       ((dt % SecondsPerDay) % 3600) \div 60,
       dt % 60 >>

----------------------------------------------------------------------------
(* generate_commit_dates *)

\* while current < end_date.date()
LoopCondInclusive(cur, endDt) == cur <= DateOf(endDt)
LoopCond(cur, endDt) == cur < DateOf(endDt)

\* if commit_day > end_date.date(): commit_day = end_date.date()
ClampDay(day, endDt) == IF day > DateOf(endDt) THEN DateOf(endDt) ELSE day

\* current += datetime.timedelta(days=7)
SixDayWindow(cur) == cur + DaysPerWeek - 1
NextWindow(cur) == cur + DaysPerWeek

RECURSIVE Insert(_, _)
Insert(x, s) ==
    IF s = <<>> THEN <<x>>
    ELSE IF x < Head(s) THEN <<x>> \o s
    ELSE <<Head(s)>> \o Insert(x, Tail(s))

RECURSIVE Sorted(_)
Sorted(s) == IF s = <<>> THEN <<>> ELSE Insert(s[Len(s)], Sorted(SubSeq(s, 1, Len(s) - 1)))

\* commit_dates.sort()
Unsorted(s) == s
SortDates(s) == Sorted(s)

\* the outcomes of random.randint(3, 5)
CommitCountDraws == MinCommits .. MaxCommits

\* the outcomes of random.randint(0, 6)
DayOffsetDraws == 0 .. MaxOffset

\* the times of day the model draws: the earliest and the latest outcome
TimeDraws ==
    { TimeOfDay(MinHour, 0, 0), TimeOfDay(MaxHour, MaxMinute, MaxSecond) }

\* the coarse draws of the many-week specification
CoarseOffsetDraws == { 0, MaxOffset }
CoarseTimeDraws == { TimeOfDay(MinHour, 0, 0) }

\* the times of day of the end instant: before, and after, every drawn time
EndTimes == { TimeOfDay(8, 30, 0), TimeOfDay(21, 0, 0) }

\* the while test succeeds: draw the week's number of commits
WindowStart ==
    /\ pc = "loop"
    /\ LoopCond(current, end_date)
    /\ \E n \in CommitCountDraws : commits_this_week' = n
    /\ drawn' = 0
    /\ windows' = windows + 1
    /\ pc' = "sample"
    /\ UNCHANGED <<start_date, end_date, current, commit_dates>>
    /\ UNCHANGED runVars

\* one iteration of the for loop: draw a day and a time, append the datetime
SampleCommit(offsets, times) ==
    /\ pc = "sample"
    /\ drawn < commits_this_week
    /\ \E day_offset \in offsets, tod \in times :
          commit_dates' = Append(commit_dates,
                                 Combine(ClampDay(current + day_offset, end_date), tod))
    /\ drawn' = drawn + 1
    /\ UNCHANGED <<pc, start_date, end_date, current, commits_this_week, windows>>
    /\ UNCHANGED runVars

\* the for loop is over: advance one week
WindowAdvance ==
    /\ pc = "sample"
    /\ drawn = commits_this_week
    /\ current' = NextWindow(current)
    /\ pc' = "loop"
    /\ UNCHANGED <<start_date, end_date, commit_dates, commits_this_week, drawn, windows>>
    /\ UNCHANGED runVars

\* the while test fails: sort and return
SortAndReturn ==
    /\ pc = "loop"
    /\ ~LoopCond(current, end_date)
    /\ commit_dates' = SortDates(commit_dates)
    /\ pc' = "for"
    /\ UNCHANGED <<start_date, end_date, current, commits_this_week, drawn, windows>>
    /\ UNCHANGED runVars

----------------------------------------------------------------------------
(* subprocess.run and the process environment *)

\* how a subprocess.run can end: exit status 0, a non-zero exit status, or
\* no git binary to run
ToolOutcomes == { "ok", "nonzero", "missing" }

\* how open(filename, "a") and the write can end
FileOutcomes == { "ok", "oserror" }

EnvVars == { "GIT_AUTHOR_DATE", "GIT_COMMITTER_DATE" }

\* the value of a variable the environment does not hold
Unset == <<>>

\* the environments the script may be started in: the two variables unset, or
\* both exported by the caller with a stale date
InitialEnvirons ==
    { [v \in EnvVars |-> Unset], [v \in EnvVars |-> <<0, 0, 0, 0>>] }

\* subprocess.run(..., check=True): the next position when the call returns,
\* "aborted" when it raises (CalledProcessError, FileNotFoundError)
RunUnchecked(outcome, next) == IF outcome = "missing" THEN "aborted" ELSE next
RunChecked(outcome, next) == IF outcome = "ok" THEN next ELSE "aborted"

\* except subprocess.CalledProcessError: print(...); return
OnNotInRepoContinue == "loop"
OnNotInRepo == "returned"

\* env = os.environ.copy(); env["GIT_AUTHOR_DATE"] = ...; env["GIT_COMMITTER_DATE"] = ...
AuthorDateOnly(environ, str) == [environ EXCEPT !["GIT_AUTHOR_DATE"] = str]
CommitEnv(environ, str) ==
    [environ EXCEPT !["GIT_AUTHOR_DATE"] = str, !["GIT_COMMITTER_DATE"] = str]

\* os.environ after make_commit built env: env is a copy, os.environ is not written
EnvironAliased(environ, str) == CommitEnv(environ, str)
EnvironAfterCommit(environ, str) == environ

\* with open(filename, "a") as f: f.write(line)
WriteTruncating(lines, line) == <<line>>
WriteLine(lines, line) == Append(lines, line)

\* for commit_date in commit_dates: the loop is over after the last element
LoopDoneEarly(i, n) == i >= n
LoopDone(i, n) == i > n

\* the date git stamps on a commit: the override when the environment holds
\* one, the wall clock (not before end_date, which was "now") otherwise
GitDate(env, var, now) == IF env[var] = Unset THEN Strftime(now) ELSE env[var]

NoFailure == [step |-> "none", k |-> 0]

Failure(outcome, step, k) ==
    IF outcome = "ok" THEN failed ELSE [step |-> step, k |-> k]

----------------------------------------------------------------------------
(* main and make_commit *)

\* subprocess.run(["git", "rev-parse", "--is-inside-work-tree"], check=True, ...)
CheckRepository ==
    /\ pc = "check"
    /\ \E outcome \in ToolOutcomes :
          /\ calls' = Append(calls, [cmd |-> "rev-parse", env |-> os_environ, k |-> 0])
          /\ pc' = CASE outcome = "ok" -> "loop"
                     [] outcome = "nonzero" -> OnNotInRepo
                     [] OTHER -> "aborted"
          /\ failed' = Failure(outcome, "rev-parse", 0)
    /\ UNCHANGED <<start_date, end_date, idx, dummy_txt, os_environ, repo_log, pushed>>
    /\ UNCHANGED genVars

\* make_commit: append a line to dummy.txt
AppendLine ==
    /\ pc = "for"
    /\ ~LoopDone(idx, Len(commit_dates))
    /\ \E outcome \in FileOutcomes :
          /\ dummy_txt' = IF outcome = "ok"
                          THEN WriteLine(dummy_txt, <<"Fake commit on", Strftime(commit_dates[idx])>>)
                          ELSE dummy_txt
          /\ pc' = IF outcome = "ok" THEN "stage" ELSE "aborted"
          /\ failed' = Failure(outcome, "append", idx)
    /\ UNCHANGED <<start_date, end_date, idx, os_environ, calls, repo_log, pushed>>
    /\ UNCHANGED genVars

\* make_commit: subprocess.run(["git", "add", filename], check=True)
Stage ==
    /\ pc = "stage"
    /\ \E outcome \in ToolOutcomes :
          /\ calls' = Append(calls, [cmd |-> "add", env |-> os_environ, k |-> idx])
          /\ pc' = RunChecked(outcome, "commit")
          /\ failed' = Failure(outcome, "add", idx)
    /\ UNCHANGED <<start_date, end_date, idx, dummy_txt, os_environ, repo_log, pushed>>
    /\ UNCHANGED genVars

\* make_commit: build env, subprocess.run(["git", "commit", ...], env=env, check=True);
\* on return main's for loop moves to the next commit_date
Commit ==
    /\ pc = "commit"
    /\ \E outcome \in ToolOutcomes :
          LET str == Strftime(commit_dates[idx])
              env == CommitEnv(os_environ, str)
          IN  /\ os_environ' = EnvironAfterCommit(os_environ, str)
              /\ calls' = Append(calls, [cmd |-> "commit", env |-> env, k |-> idx])
              /\ repo_log' =
                    IF outcome = "ok"
                    THEN Append(repo_log,
                                [message   |-> <<"Fake commit for", str>>,
                                 author    |-> GitDate(env, "GIT_AUTHOR_DATE", end_date),
                                 committer |-> GitDate(env, "GIT_COMMITTER_DATE", end_date)])
                    ELSE repo_log
              /\ pc' = RunChecked(outcome, "for")
              /\ failed' = Failure(outcome, "commit", idx)
    /\ idx' = idx + 1
    /\ UNCHANGED <<start_date, end_date, dummy_txt, pushed>>
    /\ UNCHANGED genVars

\* the for loop is over: subprocess.run(["git", "push"], check=True)
Push ==
    /\ pc = "for"
    /\ LoopDone(idx, Len(commit_dates))
    /\ \E outcome \in ToolOutcomes :
          /\ calls' = Append(calls, [cmd |-> "push", env |-> os_environ, k |-> 0])
          /\ pushed' = IF outcome = "ok" THEN Len(repo_log) ELSE pushed
          /\ pc' = RunChecked(outcome, "done")
          /\ failed' = Failure(outcome, "push", 0)
    /\ UNCHANGED <<start_date, end_date, idx, dummy_txt, os_environ, repo_log>>
    /\ UNCHANGED genVars

----------------------------------------------------------------------------
(* Specifications *)

\* the state main starts in, but for the range
InitRun ==
    /\ commit_dates = <<>>
    /\ commits_this_week = 0
    /\ drawn = 0
    /\ windows = 0
    /\ idx = 1
    /\ dummy_txt = <<>>
    /\ calls = <<>>
    /\ repo_log = <<>>
    /\ pushed = 0
    /\ failed = NoFailure

\* main, on a range of at most MaxSpan days
Init ==
    /\ pc = "check"
    /\ start_date \in 0 .. MaxStart
    /\ \E day \in 0 .. MaxStart + MaxSpan, tod \in EndTimes :
          /\ day <= start_date + MaxSpan
          /\ end_date = Combine(day, tod)
    /\ current = start_date
    /\ os_environ \in InitialEnvirons
    /\ InitRun

Next ==
    \/ CheckRepository
    \/ WindowStart
    \/ SampleCommit(DayOffsetDraws, TimeDraws)
    \/ WindowAdvance
    \/ SortAndReturn
    \/ AppendLine
    \/ Stage
    \/ Commit
    \/ Push

Spec == Init /\ [][Next]_vars

\* generate_commit_dates alone, on ranges of whole weeks
InitWeeks ==
    /\ pc = "loop"
    /\ start_date \in 0 .. MaxStart
    /\ \E w \in 1 .. MaxWeeks :
          end_date = Combine(start_date + DaysPerWeek * w, TimeOfDay(MinHour, 0, 0))
    /\ current = start_date
    /\ os_environ = [v \in EnvVars |-> Unset]
    /\ InitRun

NextWeeks ==
    \/ WindowStart
    \/ SampleCommit(CoarseOffsetDraws, CoarseTimeDraws)
    \/ WindowAdvance
    \/ SortAndReturn

SpecWeeks == InitWeeks /\ [][NextWeeks]_vars

----------------------------------------------------------------------------
(* Properties *)

\* generate_commit_dates has returned its schedule to main
ScheduleReturned ==
    \/ pc \in { "for", "stage", "commit", "done" }
    \/ failed.step \in { "append", "add", "commit", "push" }

\* the instant a formatted date string denotes
ParseDate(str) == Combine(str[1], TimeOfDay(str[2], str[3], str[4]))

\* the positions of the calls of a command
CallsOf(cmd) == { i \in 1 .. Len(calls) : calls[i].cmd = cmd }

\* main raised while staging or committing a timestamp
ToolFailedInLoop == failed.step \in { "add", "commit" }

\* the i-th commit recorded is stamped, author and committer, with the i-th timestamp
StampedWith(i) ==
    /\ ParseDate(repo_log[i].author) = commit_dates[i]
    /\ ParseDate(repo_log[i].committer) = commit_dates[i]

\* C1: every timestamp of the returned schedule lies between the start date
\* (its midnight) and the end instant, time of day included.
C1_WithinRange ==
    ScheduleReturned =>
        \A i \in 1 .. Len(commit_dates) :
            /\ Combine(start_date, 0) <= commit_dates[i]
            /\ commit_dates[i] <= end_date

\* C2: the returned schedule is sorted non-decreasing.
C2_Sorted ==
    ScheduleReturned =>
        \A i \in 1 .. Len(commit_dates) - 1 : commit_dates[i] <= commit_dates[i + 1]

\* a returned schedule with a strictly increasing pair and an equal pair of neighbours
C2_Witness ==
    /\ pc = "for"
    /\ \E i \in 1 .. Len(commit_dates) - 1 : commit_dates[i] < commit_dates[i + 1]
    /\ \E i \in 1 .. Len(commit_dates) - 1 : commit_dates[i] = commit_dates[i + 1]

\* C3: when end_date's day is 7*W days after start_date, W >= 1, the while loop
\* runs exactly W times and the returned schedule has between 3W and 5W timestamps.
C3_WholeWeeks ==
    LET days == DateOf(end_date) - start_date
        w == days \div DaysPerWeek
    IN  (ScheduleReturned /\ days > 0 /\ days % DaysPerWeek = 0) =>
            /\ windows = w
            /\ MinCommits * w <= Len(commit_dates)
            /\ Len(commit_dates) <= MaxCommits * w

\* a two-week range returned with 7 timestamps: neither the least nor the most
C3_Witness ==
    /\ pc = "for"
    /\ DateOf(end_date) - start_date = 2 * DaysPerWeek
    /\ windows = 2
    /\ Len(commit_dates) = 7

\* C4: when start_date is on or after end_date's day, the while loop never runs
\* and the returned schedule is empty.
C4_EmptyOnDegenerate ==
    start_date >= DateOf(end_date) => (windows = 0 /\ commit_dates = <<>>)

\* the schedule was returned for a range whose start is the end's very day
C4_Witness ==
    /\ pc = "for"
    /\ start_date = DateOf(end_date)
    /\ commit_dates = <<>>

\* C5: once staging or committing the k-th timestamp has failed, the run is
\* aborted, exactly the first k-1 timestamps are committed (and stay so), the
\* failed call is the last call ever issued and was issued once, and there is
\* no push.
C5_AbortOnToolFailure ==
    ToolFailedInLoop =>
        LET k == failed.k IN
        /\ pc = "aborted"
        /\ Len(repo_log) = k - 1
        /\ \A i \in 1 .. k - 1 : StampedWith(i)
        /\ calls[Len(calls)].cmd = failed.step
        /\ calls[Len(calls)].k = k
        /\ \A i \in 1 .. Len(calls) : calls[i].k <= k
        /\ Cardinality({ i \in CallsOf(failed.step) : calls[i].k = k }) = 1
        /\ CallsOf("push") = {}
        /\ pushed = 0

\* the commit of the 2nd of 5 timestamps failed
C5_Witness ==
    /\ failed = [step |-> "commit", k |-> 2]
    /\ Len(commit_dates) = 5
    /\ Len(repo_log) = 1

\* C6: once the check for a working tree has failed, main is over and nothing
\* was done: no schedule, no line in the file, no other call, no commit, no push.
C6_AbortOnPrecondition ==
    failed.step = "rev-parse" =>
        /\ pc \in { "returned", "aborted" }
        /\ windows = 0
        /\ commit_dates = <<>>
        /\ idx = 1
        /\ dummy_txt = <<>>
        /\ Len(calls) = 1
        /\ repo_log = <<>>
        /\ pushed = 0

\* git answered the check with a non-zero status and main returned
C6_Witness ==
    /\ pc = "returned"
    /\ failed = [step |-> "rev-parse", k |-> 0]
    /\ start_date < DateOf(end_date)

\* C7: while no call has failed, the commits recorded are the first timestamps
\* of the schedule, in order, one commit each, author and committer date both
\* the timestamp, hence non-decreasing; when main is done there is one commit
\* for every timestamp.
C7_CommitsFollowSchedule ==
    failed = NoFailure =>
        /\ Len(repo_log) <= Len(commit_dates)
        /\ \A i \in 1 .. Len(repo_log) : StampedWith(i)
        /\ \A i \in 1 .. Len(repo_log) :
              Cardinality({ j \in CallsOf("commit") : calls[j].k = i }) = 1
        /\ \A i \in 1 .. Len(repo_log) - 1 :
              ParseDate(repo_log[i].committer) <= ParseDate(repo_log[i + 1].committer)
        /\ pc = "done" => Len(repo_log) = Len(commit_dates)

\* main is done with 5 commits, the first and the last on different instants
C7_Witness ==
    /\ pc = "done"
    /\ failed = NoFailure
    /\ Len(repo_log) = 5
    /\ repo_log[1].author # repo_log[5].author

\* C8: there is at most one push; it is the last call, the first call was the
\* check and it passed, and by then every timestamp of the schedule has its commit.
C8_PushLast ==
    /\ Cardinality(CallsOf("push")) <= 1
    /\ \A i \in CallsOf("push") :
          /\ i = Len(calls)
          /\ calls[1].cmd = "rev-parse"
          /\ failed.step \in { "none", "push" }
          /\ ScheduleReturned
          /\ Len(repo_log) = Len(commit_dates)
          /\ \A k \in 1 .. Len(commit_dates) :
                \E j \in CallsOf("commit") : j < i /\ calls[j].k = k

\* main is done: the push followed the commits of a schedule of 3
C8_Witness ==
    /\ pc = "done"
    /\ Len(commit_dates) = 3
    /\ calls[Len(calls)].cmd = "push"
    /\ pushed = 3

\* C9: no step changes os.environ; every call but a commit runs in os.environ
\* and is handed no timestamp of the schedule, and the commit of the k-th
\* timestamp is handed os.environ overridden with that timestamp alone.
C9_EnvironPreserved ==
    [][ /\ os_environ' = os_environ
        /\ \A i \in 1 .. Len(calls') :
              IF calls'[i].cmd = "commit"
              THEN \A v \in EnvVars :
                      calls'[i].env[v] = Strftime(commit_dates'[calls'[i].k])
              ELSE /\ calls'[i].env = os_environ
                   /\ \A v \in EnvVars, k \in 1 .. Len(commit_dates') :
                         calls'[i].env[v] # Strftime(commit_dates'[k]) ]_vars

\* main is done after at least two commits, started with the variables exported
C9_Witness ==
    /\ pc = "done"
    /\ Len(repo_log) >= 2
    /\ os_environ["GIT_AUTHOR_DATE"] # Unset
    /\ \E i \in CallsOf("commit"), j \in CallsOf("add") : i < j

\* C10: dummy.txt holds as many lines as there are commits, or one more; the
\* line of a timestamp is in the file when it is staged and committed; when
\* staging or committing the k-th timestamp failed, the file holds k lines and
\* the log k-1 commits.
C10_LinesVersusCommits ==
    /\ Len(dummy_txt) - Len(repo_log) \in { 0, 1 }
    /\ \A i \in CallsOf("add") \cup CallsOf("commit") :
          /\ calls[i].k <= Len(dummy_txt)
          /\ dummy_txt[calls[i].k] = <<"Fake commit on", Strftime(commit_dates[calls[i].k])>>
    /\ ToolFailedInLoop =>
          /\ Len(dummy_txt) = failed.k
          /\ Len(repo_log) = failed.k - 1

\* staging the 2nd timestamp failed: two lines, one commit
C10_Witness ==
    /\ failed = [step |-> "add", k |-> 2]
    /\ Len(dummy_txt) = 2
    /\ Len(repo_log) = 1

====
